---------------------------- MODULE Spec2Model ----------------------------
(***************************************************************************)
(* A model of configor: Load resolves the candidate files into a plan      *)
(* (getConfigurationFiles), merges every file of the plan into the target  *)
(* structure (UnmarshalFile) and then walks the structure's fields         *)
(* (processTags): environment lookup, default, required check, recursion.  *)
(*                                                                         *)
(* Strings the code computes on (paths, field names, environment variable  *)
(* names) are sequences of one-character strings, so that path.Ext,        *)
(* strings.Join and toScreamingSnakeCase are computed as the code computes *)
(* them, and so is the decimal literal yaml.Unmarshal reads into a field.   *)
(***************************************************************************)
EXTENDS Naturals, Sequences, FiniteSets, TLC

(***************************************************************************)
(* Bounds of the model.                                                    *)
(***************************************************************************)
\* longest candidate list handed to Load
MaxFiles == 2
\* most elements of a list-of-records field in an initial structure
MaxElems == 1
\* most environment variables that carry a non-empty value
MaxEnvVars == 2
\* most paths that exist on the disk
MaxPresent == 3

(***************************************************************************)
(* Characters and strings.                                                 *)
(***************************************************************************)
Lowers == <<"a","b","c","d","e","f","g","h","i","j","k","l","m",
            "n","o","p","q","r","s","t","u","v","w","x","y","z">>
Uppers == <<"A","B","C","D","E","F","G","H","I","J","K","L","M",
            "N","O","P","Q","R","S","T","U","V","W","X","Y","Z">>
Digits == <<"0","1","2","3","4","5","6","7","8","9">>

Range(s) == {s[i] : i \in 1..Len(s)}

LowerSet == Range(Lowers)
UpperSet == Range(Uppers)
DigitSet == Range(Digits)

IsLower(c) == c \in LowerSet
IsUpper(c) == c \in UpperSet
IsDigit(c) == c \in DigitSet

UpperOf == [c \in LowerSet |-> Uppers[CHOOSE i \in 1..Len(Lowers) : Lowers[i] = c]]

\* strings.ToUpper on one character
ToUpperChar(c) == IF IsLower(c) THEN UpperOf[c] ELSE c

\* strings.ToUpper
ToUpper(s) == [i \in 1..Len(s) |-> ToUpperChar(s[i])]

\* strings.ReplaceAll(s, "-", "_")
ReplaceDash(s) == [i \in 1..Len(s) |-> IF s[i] = "-" THEN "_" ELSE s[i]]

\* strings.HasSuffix
HasSuffix(s, suf) ==
    /\ Len(suf) <= Len(s)
    /\ SubSeq(s, Len(s) - Len(suf) + 1, Len(s)) = suf

\* strings.TrimSuffix
TrimSuffix(s, suf) ==
    IF HasSuffix(s, suf) THEN SubSeq(s, 1, Len(s) - Len(suf)) ELSE s

\* strings.Join(names, sep)
RECURSIVE Join(_, _)
Join(names, sep) ==
    IF names = <<>> THEN <<>>
    ELSE IF Len(names) = 1 THEN names[1]
    ELSE names[1] \o sep \o Join(Tail(names), sep)

\* matchFirstCap.ReplaceAllString(s, "${1}_${2}"): ([A-Z])([A-Z][a-z]),
\* leftmost matches, not overlapping
RECURSIVE ReplaceFirstCap(_)
ReplaceFirstCap(s) ==
    IF s = <<>> THEN <<>>
    ELSE IF Len(s) >= 3 /\ IsUpper(s[1]) /\ IsUpper(s[2]) /\ IsLower(s[3])
    THEN <<s[1], "_", s[2], s[3]>> \o ReplaceFirstCap(SubSeq(s, 4, Len(s)))
    ELSE <<s[1]>> \o ReplaceFirstCap(Tail(s))

\* matchAllCap.ReplaceAllString(s, "${1}_${2}"): ([a-z0-9])([A-Z])
RECURSIVE ReplaceAllCap(_)
ReplaceAllCap(s) ==
    IF s = <<>> THEN <<>>
    ELSE IF Len(s) >= 2 /\ (IsLower(s[1]) \/ IsDigit(s[1])) /\ IsUpper(s[2])
    THEN <<s[1], "_", s[2]>> \o ReplaceAllCap(SubSeq(s, 3, Len(s)))
    ELSE <<s[1]>> \o ReplaceAllCap(Tail(s))

toScreamingSnakeCase(input) ==
    ToUpper(ReplaceDash(ReplaceAllCap(ReplaceFirstCap(input))))

\* fmt.Sprint(i) for the element indices the model reaches
Sprint(i) == <<Digits[i + 1]>>

(***************************************************************************)
(* Paths.                                                                  *)
(***************************************************************************)
\* path.Ext: the suffix from the last dot of the last path element
RECURSIVE ExtFrom(_, _)
ExtFrom(p, i) ==
    IF i = 0 THEN <<>>
    ELSE IF p[i] = "/" THEN <<>>
    ELSE IF p[i] = "." THEN SubSeq(p, i, Len(p))
    ELSE ExtFrom(p, i - 1)

Ext(p) == ExtFrom(p, Len(p))

\* the name getFilenameWithENVPrefix builds before it looks at the disk
EnvFileName(file, env) ==
    LET extname == Ext(file) IN
    IF extname = <<>> THEN file \o <<".">> \o env
    ELSE TrimSuffix(file, extname) \o <<".">> \o env \o extname


(***************************************************************************)
(* Literals and values.  A literal (an environment value, a default tag)   *)
(* is a string; a leaf field is an unsigned integer (Port uint in the      *)
(* README), a record is the sequence of its fields' values, a list of      *)
(* records is a sequence of records (nil when empty).                      *)
(***************************************************************************)
ValueOf == [c \in DigitSet |-> (CHOOSE i \in 1..Len(Digits) : Digits[i] = c) - 1]

DigitValue(c) == ValueOf[c]

RECURSIVE DecimalValue(_)
DecimalValue(lit) ==
    IF lit = <<>> THEN 0
    ELSE 10 * DecimalValue(SubSeq(lit, 1, Len(lit) - 1)) + DigitValue(lit[Len(lit)])

IsDecimal(lit) == lit # <<>> /\ \A i \in 1..Len(lit) : IsDigit(lit[i])

\* yaml.Unmarshal([]byte(lit), field.Addr().Interface()) for a scalar literal:
\* an unsigned integer field takes a decimal literal and refuses anything
\* else; a record or a list refuses every scalar.  A refused literal leaves
\* the field as it was.
Unmarshal(f, lit, cur) ==
    IF f.kind = "uint" /\ IsDecimal(lit)
    THEN [ok |-> TRUE, val |-> DecimalValue(lit)]
    ELSE [ok |-> FALSE, val |-> cur]

\* reflect.Zero(field.Type())
RECURSIVE ZeroOf(_)
ZeroOf(f) ==
    CASE f.kind = "uint"   -> 0
      [] f.kind = "struct" -> [k \in 1..Len(f.elem) |-> ZeroOf(f.elem[k])]
      [] f.kind = "slice"  -> <<>>

\* reflect.DeepEqual(field.Interface(), reflect.Zero(field.Type()).Interface())
IsBlank(f, v) == v = ZeroOf(f)

RECURSIVE GetAt(_, _)
GetAt(v, p) == IF p = <<>> THEN v ELSE GetAt(v[Head(p)], Tail(p))

RECURSIVE SetAt(_, _, _)
SetAt(v, p, x) ==
    IF p = <<>> THEN x
    ELSE [v EXCEPT ![Head(p)] = SetAt(v[Head(p)], Tail(p), x)]

(***************************************************************************)
(* Field descriptors: what reflect.StructField and the tags give.          *)
(***************************************************************************)
NoTag == <<>>

Leaf(name, env, def, required) ==
    [name |-> name, kind |-> "uint", env |-> env, def |-> def,
     required |-> required, anonTag |-> FALSE, embedded |-> FALSE,
     exported |-> TRUE, elem |-> <<>>]

Unexported(name, def) ==
    [name |-> name, kind |-> "uint", env |-> NoTag, def |-> def,
     required |-> FALSE, anonTag |-> FALSE, embedded |-> FALSE,
     exported |-> FALSE, elem |-> <<>>]

Record(name, embedded, anonTag, elem) ==
    [name |-> name, kind |-> "struct", env |-> NoTag, def |-> NoTag,
     required |-> FALSE, anonTag |-> anonTag, embedded |-> embedded,
     exported |-> TRUE, elem |-> elem]

List(name, required, elem) ==
    [name |-> name, kind |-> "slice", env |-> NoTag, def |-> NoTag,
     required |-> required, anonTag |-> FALSE, embedded |-> FALSE,
     exported |-> TRUE, elem |-> elem]

(***************************************************************************)
(* The process environment.                                                *)
(***************************************************************************)
VARIABLES
    files,          \* Load's candidate files, in the caller's order
    cfgEnvironment, \* Config.Environment
    cfgPrefix,      \* Config.EnvironmentPrefix
    argv0IsTest,    \* whether testRegexp matches os.Args[0]
    addressable,    \* whether Load was handed a pointer to the structure
    fs,             \* the disk: each path that exists -> "dir", or "sets" or
                    \* "blank" for a regular file
    environ,        \* the environment variables: name -> value
    plan,           \* results of getConfigurationFiles, each entry with the
                    \* candidate and the step that contributed it
    idx,            \* the loop index i of getConfigurationFiles / of Load's merge loop
    notices,        \* what the program has printed or logged
    typ,            \* the structure's type: its field descriptors
    config,         \* the structure's value
    config0,        \* the structure's value when Bind was first entered (history)
    entry,          \* the structure's value when this run of Bind was entered (history)
    merged,         \* the files merged so far, in order (history)
    stack,          \* the processTags activations, innermost first
    log,            \* what processTags did, in order (history)
    err,            \* the error returned, kind "none" while there is none
    pc,             \* "load", "resolve", "merge", "bind", "done"
    pass,           \* which run of Bind this is
    afterFirst      \* the structure's value when the first Bind returned (history)

vars == <<files, cfgEnvironment, cfgPrefix, argv0IsTest, addressable, fs, environ,
          plan, idx, notices, typ, config, config0, entry, merged, stack, log, err, pc,
          pass, afterFirst>>

NoError == [kind |-> "none", name |-> <<>>]

\* os.Getenv
Getenv(name) == IF name \in DOMAIN environ THEN environ[name] ELSE <<>>


(***************************************************************************)
(* Config's getters.                                                       *)
(***************************************************************************)
CONFIGOR_ENV == <<"C","O","N","F","I","G","O","R","_","E","N","V">>
CONFIGOR_ENV_PREFIX == CONFIGOR_ENV \o <<"_","P","R","E","F","I","X">>

sTest == <<"t","e","s","t">>
sDevelopment == <<"d","e","v","e","l","o","p","m","e","n","t">>
sExample == <<"e","x","a","m","p","l","e">>
sProd == <<"p","r","o","d">>

GetEnvironment ==
    IF cfgEnvironment = <<>>
    THEN IF Getenv(CONFIGOR_ENV) # <<>> THEN Getenv(CONFIGOR_ENV)
         ELSE IF argv0IsTest THEN sTest
         ELSE sDevelopment
    ELSE cfgEnvironment

GetEnvironmentPrefix ==
    IF cfgPrefix = <<>> THEN Getenv(CONFIGOR_ENV_PREFIX) ELSE cfgPrefix

(***************************************************************************)
(* The Resolver.                                                           *)
(***************************************************************************)
\* os.Stat(p) succeeds and fileInfo.Mode().IsRegular()
IsRegular(p) == p \in DOMAIN fs /\ fs[p] \in {"sets", "blank"}

\* os.Stat(p) succeeds
Exists(p) == p \in DOMAIN fs

\* getFilenameWithENVPrefix without the Mode().IsRegular() test
getFilenameWithENVPrefixAnyMode(file, env) ==
    LET envFile == EnvFileName(file, env) IN
    IF Exists(envFile) THEN [file |-> envFile, ok |-> TRUE]
    ELSE [file |-> <<>>, ok |-> FALSE]

getFilenameWithENVPrefix(file, env) ==
    LET envFile == EnvFileName(file, env) IN
    IF IsRegular(envFile) THEN [file |-> envFile, ok |-> TRUE]
    ELSE [file |-> <<>>, ok |-> FALSE]

Entry(path, cand, step) == [path |-> path, cand |-> cand, step |-> step]

\* "check configuration": the candidate itself
BaseEntries(i) ==
    IF IsRegular(files[i]) THEN <<Entry(files[i], i, "base")>> ELSE <<>>

\* "check configuration with env"
EnvEntries(i) ==
    LET r == getFilenameWithENVPrefix(files[i], GetEnvironment) IN
    IF r.ok THEN <<Entry(r.file, i, "env")>> ELSE <<>>

\* the example step without the "if !foundFile" around it
ExampleEntriesAlways(i, foundFile) ==
    LET r == getFilenameWithENVPrefix(files[i], sExample) IN
    IF r.ok THEN <<Entry(r.file, i, "example")>> ELSE <<>>

\* "check example configuration", reached with foundFile false
ExampleEntries(i, foundFile) ==
    LET r == getFilenameWithENVPrefix(files[i], sExample) IN
    IF ~foundFile /\ r.ok THEN <<Entry(r.file, i, "example")>> ELSE <<>>

\* the loop's body with the environment variant appended before the candidate
CandidateEntriesEnvFirst(i) ==
    LET base == BaseEntries(i)
        envs == EnvEntries(i)
        foundFile == base # <<>> \/ envs # <<>>
    IN  envs \o base \o ExampleEntries(i, foundFile)

\* one iteration of getConfigurationFiles' loop: what candidate i appends
CandidateEntries(i) ==
    LET base == BaseEntries(i)
        envs == EnvEntries(i)
        foundFile == base # <<>> \/ envs # <<>>
    IN  base \o envs \o ExampleEntries(i, foundFile)

\* the candidate the loop takes after candidate i
NextCandidate(i) == i - 1

\* the candidate the loop takes first
FirstCandidate == Len(files)

(***************************************************************************)
(* UnmarshalFile.  The decoders are libraries: a regular file here is a    *)
(* well-formed document that either gives every exported top-level leaf    *)
(* field a value ("sets": a value that names the file) or holds no key     *)
(* ("blank").                                                              *)
(***************************************************************************)
Suffixes == { <<".","y","a","m","l">>, <<".","y","m","l">>,
              <<".","t","o","m","l">>, <<".","j","s","o","n">> }

SupportedFormat(file) == \E suf \in Suffixes : HasSuffix(file, suf)

Candidates == { <<"c",".","y","m","l">>,
                <<"c",".","p","r","o","d",".","y","m","l">>,
                <<"x",".","d","/","f">> }

EnvironmentNames == {sProd, sExample, sTest, sDevelopment}

AllPaths ==
    Candidates \cup {EnvFileName(c, e) : c \in Candidates, e \in EnvironmentNames}

RECURSIVE SeqOfSet(_)
SeqOfSet(S) ==
    IF S = {} THEN <<>>
    ELSE LET x == CHOOSE y \in S : TRUE IN <<x>> \o SeqOfSet(S \ {x})

PathList == SeqOfSet(AllPaths)

\* the value a "sets" file gives the fields: one value per path, none zero
FileValue(p) == CHOOSE i \in 1..Len(PathList) : PathList[i] = p

MergeDocument(cur, file) ==
    IF fs[file] = "sets"
    THEN [k \in 1..Len(typ) |->
            IF typ[k].kind = "uint" /\ typ[k].exported
            THEN FileValue(file) ELSE cur[k]]
    ELSE cur


(***************************************************************************)
(* The Binder: processTags.                                                *)
(***************************************************************************)
Underscore == <<"_">>

\* strings.Join(append(prefixes, fieldStruct.Name), "_")
JoinedName(prefixes, f) == Join(Append(prefixes, f.name), Underscore)

\* envNames with the screaming form tried first, and tried beside an env tag
EnvNamesScreamingFirst(prefixes, f) ==
    IF f.env = NoTag
    THEN <<toScreamingSnakeCase(JoinedName(prefixes, f)), JoinedName(prefixes, f)>>
    ELSE <<f.env, toScreamingSnakeCase(JoinedName(prefixes, f))>>

\* envNames: the env tag alone, or the joined name and its screaming form
EnvNames(prefixes, f) ==
    IF f.env = NoTag
    THEN <<JoinedName(prefixes, f), toScreamingSnakeCase(JoinedName(prefixes, f))>>
    ELSE <<f.env>>

\* the index at which "for _, env := range envNames" breaks, 0 when it runs out
FirstHit(names) ==
    IF \E k \in 1..Len(names) : Getenv(names[k]) # <<>>
    THEN CHOOSE k \in 1..Len(names) :
            /\ Getenv(names[k]) # <<>>
            /\ \A j \in 1..(k - 1) : Getenv(names[j]) = <<>>
    ELSE 0

\* how many names the loop hands to os.Getenv
LookupCount(names) == IF FirstHit(names) = 0 THEN Len(names) ELSE FirstHit(names)

\* the tags with the branches for default and required swapped
TagOutcomeRequiredFirst(f, v) ==
    IF IsBlank(f, v)
    THEN IF f.required THEN "required"
         ELSE IF f.def # NoTag THEN "default"
         ELSE "keep"
    ELSE "keep"

\* the tags with the default set whether or not the field is blank
TagOutcomeAlwaysDefault(f, v) ==
    IF f.def # NoTag THEN "default"
    ELSE IF IsBlank(f, v) /\ f.required THEN "required"
    ELSE "keep"

\* "if isBlank { if default != "" { ... } else if required == "true" { ... } }":
\* what the tags make of a field whose value is v after the environment step
TagOutcome(f, v) ==
    IF IsBlank(f, v)
    THEN IF f.def # NoTag THEN "default"
         ELSE IF f.required THEN "required"
         ELSE "keep"
    ELSE "keep"

\* prefix that drops the name of every tagged field, embedded or not
prefixTagOnly(prefixes, f) ==
    IF f.anonTag THEN prefixes ELSE Append(prefixes, f.name)

\* prefix(prefixes, &fieldStruct)
prefix(prefixes, f) ==
    IF f.embedded /\ f.anonTag THEN prefixes ELSE Append(prefixes, f.name)

Event(path, op, name, lit) ==
    [pass |-> pass, path |-> path, op |-> op, name |-> name, lit |-> lit]

FieldError(kind, f) == [kind |-> kind, name |-> f.name]

\* the body of processTags' loop for one addressable field, up to the
\* recursion: the value the field is left with, what was done, the error
FieldStep(f, prefixes, path, cur) ==
    LET names == EnvNames(prefixes, f)
        hit   == FirstHit(names)
        gets  == [k \in 1..LookupCount(names) |->
                    Event(path, "getenv", names[k], Getenv(names[k]))]
        envR  == IF hit = 0 THEN [ok |-> TRUE, val |-> cur]
                 ELSE Unmarshal(f, Getenv(names[hit]), cur)
        ev1   == IF hit = 0 THEN gets
                 ELSE Append(gets, Event(path, "setenv", names[hit], Getenv(names[hit])))
        defR  == Unmarshal(f, f.def, envR.val)
    IN  IF ~envR.ok
        THEN [val |-> cur,
              events |-> Append(gets, Event(path, "badenv", names[hit], Getenv(names[hit]))),
              err |-> FieldError("literal", f)]
        ELSE IF TagOutcome(f, envR.val) = "default"
        THEN IF defR.ok
             THEN [val |-> defR.val,
                   events |-> Append(ev1, Event(path, "default", f.name, f.def)),
                   err |-> NoError]
             ELSE [val |-> envR.val,
                   events |-> Append(ev1, Event(path, "baddefault", f.name, f.def)),
                   err |-> FieldError("literal", f)]
        ELSE IF TagOutcome(f, envR.val) = "required"
        THEN [val |-> envR.val,
              events |-> Append(ev1, Event(path, "required", f.name, <<>>)),
              err |-> FieldError("required", f)]
        ELSE [val |-> envR.val, events |-> ev1, err |-> NoError]

Frame(t, path, prefixes) == [typ |-> t, path |-> path, i |-> 1, prefixes |-> prefixes]

\* the activations the field's recursion makes, in the order it makes them
Children(f, path, prefixes, val) ==
    CASE f.kind = "struct" -> <<Frame(f.elem, path, prefix(prefixes, f))>>
      [] f.kind = "slice"  ->
            [j \in 1..Len(val) |->
                Frame(f.elem, Append(path, j),
                      Append(prefix(prefixes, f), Sprint(j - 1)))]
      [] OTHER -> <<>>

\* an error that ends the field's iteration only: the loops go on
AfterErrorContinue(st) == st

\* what is left to run once a field has failed: every level returns the error
AfterError(st) == <<>>

\* Load's call: processTags(config) or processTags(config, prefix)
RootFrame ==
    Frame(typ, <<>>,
          IF GetEnvironmentPrefix = <<>> THEN <<>> ELSE <<GetEnvironmentPrefix>>)


(***************************************************************************)
(* Load, step by step.                                                     *)
(***************************************************************************)
\* Load's entry, handed a pointer to the structure or the structure itself:
\* the addressability check, then getConfigurationFiles
Load ==
    /\ pc = "load"
    /\ \E a \in BOOLEAN :
          /\ addressable' = a
          /\ IF ~a
             THEN /\ err' = [kind |-> "addressable", name |-> <<>>]
                  /\ pc' = "done"
                  /\ UNCHANGED <<plan, idx>>
             ELSE /\ pc' = "resolve"
                  /\ plan' = <<>>
                  /\ idx' = FirstCandidate
                  /\ UNCHANGED err
    /\ UNCHANGED <<files, cfgEnvironment, cfgPrefix, argv0IsTest, fs,
                   environ, notices, typ, config, config0, entry, merged, stack,
                   log, pass, afterFirst>>

\* one iteration of getConfigurationFiles' loop
ResolveCandidate ==
    /\ pc = "resolve"
    /\ idx >= 1
    /\ plan' = plan \o CandidateEntries(idx)
    /\ idx' = NextCandidate(idx)
    /\ UNCHANGED <<files, cfgEnvironment, cfgPrefix, argv0IsTest, addressable, fs,
                   environ, notices, typ, config, config0, entry, merged, stack,
                   log, err, pc, pass, afterFirst>>

\* getConfigurationFiles returns; Load starts on the plan
ResolveReturn ==
    /\ pc = "resolve"
    /\ idx < 1
    /\ pc' = "merge"
    /\ idx' = 1
    /\ UNCHANGED <<files, cfgEnvironment, cfgPrefix, argv0IsTest, addressable, fs,
                   environ, plan, notices, typ, config, config0, entry, merged,
                   stack, log, err, pass, afterFirst>>

\* one iteration of Load's loop over configFiles: UnmarshalFile
MergeFile ==
    /\ pc = "merge"
    /\ idx <= Len(plan)
    /\ IF SupportedFormat(plan[idx].path)
       THEN /\ config' = MergeDocument(config, plan[idx].path)
            /\ merged' = Append(merged, idx)
            /\ idx' = idx + 1
            /\ UNCHANGED <<err, pc>>
       ELSE /\ err' = [kind |-> "format", name |-> <<>>]
            /\ pc' = "done"
            /\ UNCHANGED <<config, merged, idx>>
    /\ UNCHANGED <<files, cfgEnvironment, cfgPrefix, argv0IsTest, addressable, fs,
                   environ, plan, notices, typ, config0, entry, stack, log, pass,
                   afterFirst>>

\* every file is merged: Load calls processTags
BeginBind ==
    /\ pc = "merge"
    /\ idx > Len(plan)
    /\ pc' = "bind"
    /\ stack' = <<RootFrame>>
    /\ config0' = config
    /\ entry' = config
    /\ UNCHANGED <<files, cfgEnvironment, cfgPrefix, argv0IsTest, addressable, fs,
                   environ, plan, idx, notices, typ, config, merged, log, err,
                   pass, afterFirst>>

\* one iteration of processTags' loop over the fields, in the innermost activation
ProcessField ==
    /\ pc = "bind"
    /\ stack # <<>>
    /\ Head(stack).i <= Len(Head(stack).typ)
    /\ LET fr   == Head(stack)
           f    == fr.typ[fr.i]
           path == Append(fr.path, fr.i)
           cur  == GetAt(config, path)
           step == FieldStep(f, fr.prefixes, path, cur)
           next == [fr EXCEPT !.i = fr.i + 1]
       IN  IF ~f.exported
           THEN /\ stack' = <<next>> \o Tail(stack)
                /\ UNCHANGED <<config, log, err, pc, afterFirst>>
           ELSE /\ config' = SetAt(config, path, step.val)
                /\ log' = log \o step.events
                /\ err' = step.err
                /\ stack' = IF step.err.kind # "none"
                            THEN AfterError(<<next>> \o Tail(stack))
                            ELSE Children(f, path, fr.prefixes, step.val)
                                    \o <<next>> \o Tail(stack)
                /\ pc' = IF stack' = <<>> THEN "done" ELSE "bind"
                /\ afterFirst' = IF stack' = <<>> /\ pass = 1 THEN config' ELSE afterFirst
    /\ UNCHANGED <<files, cfgEnvironment, cfgPrefix, argv0IsTest, addressable, fs,
                   environ, plan, idx, notices, typ, config0, entry, merged, pass>>

\* processTags' loop is over: "return nil" to the caller
ReturnFrame ==
    /\ pc = "bind"
    /\ stack # <<>>
    /\ Head(stack).i > Len(Head(stack).typ)
    /\ stack' = Tail(stack)
    /\ pc' = IF stack' = <<>> THEN "done" ELSE "bind"
    /\ afterFirst' = IF stack' = <<>> /\ pass = 1 THEN config ELSE afterFirst
    /\ UNCHANGED <<files, cfgEnvironment, cfgPrefix, argv0IsTest, addressable, fs,
                   environ, plan, idx, notices, typ, config, config0, entry, merged,
                   log, err, pass>>

\* the caller binds the same structure once more, the environment unchanged
BindAgain ==
    /\ pc = "done"
    /\ pass = 1
    /\ pass' = pass + 1
    /\ pc' = "bind"
    /\ stack' = <<RootFrame>>
    /\ entry' = config
    /\ err' = NoError
    /\ UNCHANGED <<files, cfgEnvironment, cfgPrefix, argv0IsTest, addressable, fs,
                   environ, plan, idx, notices, typ, config, config0, merged, log,
                   afterFirst>>

(***************************************************************************)
(* The structures and environments the model runs on.                      *)
(***************************************************************************)
sAPPName == <<"A","P","P","N","a","m","e">>
sAPPNAME == <<"A","P","P","N","A","M","E">>
sDB == <<"D","B">>
sPort == <<"P","o","r","t">>
sPassword == <<"P","a","s","s","w","o","r","d">>
sDBPassword == <<"D","B","P","a","s","s","w","o","r","d">>
sDB_PORT == <<"D","B","_","P","O","R","T">>
sDB_PASSWORD == <<"D","B","_","P","A","S","S","W","O","R","D">>
sContacts == <<"C","o","n","t","a","c","t","s">>
sEmail == <<"E","m","a","i","l">>
sLimit == <<"L","i","m","i","t">>
sLIMIT == <<"L","I","M","I","T">>
sContacts_0_Email == <<"C","o","n","t","a","c","t","s","_","0","_","E","m","a","i","l">>
sCONTACTS_0_EMAIL == <<"C","O","N","T","A","C","T","S","_","0","_","E","M","A","I","L">>
sCONTACTS_1_EMAIL == <<"C","O","N","T","A","C","T","S","_","1","_","E","M","A","I","L">>
sDetails == <<"D","e","t","a","i","l","s">>
sDescription == <<"D","e","s","c","r","i","p","t","i","o","n">>
sMeta == <<"M","e","t","a">>
sLevel == <<"L","e","v","e","l">>
sExtra == <<"E","x","t","r","a">>
sSize == <<"S","i","z","e">>
ssecret == <<"s","e","c","r","e","t">>
sDESCRIPTION == <<"D","E","S","C","R","I","P","T","I","O","N">>
sDETAILS_DESCRIPTION == <<"D","E","T","A","I","L","S","_","D","E","S","C","R","I","P","T","I","O","N">>
sMETA_LEVEL == <<"M","E","T","A","_","L","E","V","E","L">>
sLEVEL == <<"L","E","V","E","L">>
sEXTRA_SIZE == <<"E","X","T","R","A","_","S","I","Z","E">>
sSIZE == <<"S","I","Z","E">>
sMode == <<"M","o","d","e">>
sPORT == <<"P","O","R","T">>
sMY_APP_PORT == <<"M","Y","_","A","P","P","_","P","O","R","T">>
sMY_APP_MODE == <<"M","Y","_","A","P","P","_","M","O","D","E">>
sHost == <<"H","o","s","t">>
sHOST == <<"H","O","S","T">>
sCache == <<"C","a","c","h","e">>
sCACHE == <<"C","A","C","H","E">>
sTTL == <<"T","T","L">>
sCACHE_TTL == <<"C","A","C","H","E","_","T","T","L">>
sWeight == <<"W","e","i","g","h","t">>
sWEIGHT == <<"W","E","I","G","H","T">>
sMyApp == <<"m","y","-","a","p","p">>
sMyApp_Port == <<"m","y","-","a","p","p","_","P","o","r","t">>
lit0 == <<"0">>
lit1 == <<"1">>
lit2 == <<"2">>
litAbc == <<"a","b","c">>

\* the README's Config, the lists left out
TypeDB ==
    << Leaf(sAPPName, NoTag, lit1, FALSE),
       Record(sDB, FALSE, FALSE,
              << Leaf(sPort, NoTag, lit2, FALSE),
                 Leaf(sPassword, sDBPassword, NoTag, TRUE) >>) >>

\* the README's Contacts, and a required field whose default is the zero value
TypeContacts ==
    << List(sContacts, FALSE,
            << Leaf(sEmail, NoTag, NoTag, TRUE) >>),
       Leaf(sLimit, NoTag, lit0, TRUE) >>

\* the README's Details `anonymous:"true"`, beside an embedded record without
\* the tag, a tagged record that is not embedded, and an unexported field
TypeAnonymous ==
    << Record(sDetails, TRUE, TRUE, << Leaf(sDescription, NoTag, NoTag, TRUE) >>),
       Unexported(ssecret, lit1),
       Record(sMeta, TRUE, FALSE, << Leaf(sLevel, NoTag, NoTag, FALSE) >>),
       Record(sExtra, FALSE, TRUE, << Leaf(sSize, NoTag, NoTag, FALSE) >>) >>

\* a default that is no literal of the field's type
TypePrefixed ==
    << Leaf(sPort, NoTag, lit2, FALSE),
       Leaf(sMode, NoTag, litAbc, FALSE) >>

\* every leaf has a default that parses
TypeDefaults ==
    << Leaf(sHost, NoTag, lit1, FALSE),
       Record(sCache, FALSE, FALSE, << Leaf(sTTL, NoTag, lit0, FALSE) >>),
       Leaf(sWeight, NoTag, lit2, TRUE) >>

\* the structure Load is run on
TypeLoad ==
    << Leaf(sAPPName, NoTag, lit1, FALSE),
       Leaf(sPort, NoTag, NoTag, TRUE) >>

Scenario(t, pre, names) == [typ |-> t, prefix |-> pre, names |-> names]

Scenarios ==
    { Scenario(TypeDB, <<>>,
               {sAPPName, sAPPNAME, sDB_PORT, sDBPassword, sDB_PASSWORD}),
      Scenario(TypeContacts, <<>>,
               {sContacts_0_Email, sCONTACTS_0_EMAIL, sCONTACTS_1_EMAIL, sLIMIT}),
      Scenario(TypeAnonymous, <<>>,
               {sDESCRIPTION, sDETAILS_DESCRIPTION, sMETA_LEVEL, sLEVEL,
                sEXTRA_SIZE, sSIZE}),
      Scenario(TypePrefixed, sMyApp,
               {sMyApp_Port, sMY_APP_PORT, sPORT, sMY_APP_MODE}),
      Scenario(TypeDefaults, <<>>,
               {sHost, sHOST, sCACHE_TTL, sWEIGHT, sCACHE}) }

\* the values an environment variable is given
EnvLits == {lit0, lit1, litAbc}

\* the values a leaf field may hold once the files are merged: the zero
\* value, or a value a file gave it
LeafValues == {0, 7}

\* every environment over names with at most MaxEnvVars variables set
Environs(names) ==
    UNION { [S -> EnvLits] :
                S \in {T \in SUBSET names : Cardinality(T) <= MaxEnvVars} }

SeqsOfLen(S, n) == [1..n -> S]

RECURSIVE StructValues(_)
FieldValues(f) ==
    CASE f.kind = "uint"   -> IF f.exported THEN LeafValues ELSE {0}
      [] f.kind = "struct" -> StructValues(f.elem)
      [] f.kind = "slice"  ->
            UNION {SeqsOfLen(StructValues(f.elem), n) : n \in 0..MaxElems}

\* every value a structure of type t may hold once the files are merged
StructValues(t) ==
    IF t = <<>> THEN {<<>>}
    ELSE {<<v>> \o rest : v \in FieldValues(t[1]), rest \in StructValues(Tail(t))}

Lists(S, n) == UNION {SeqsOfLen(S, k) : k \in 0..n}

\* the paths Load may look at for the candidates fl under environment env
Relevant(fl, env) ==
    UNION { {fl[i], EnvFileName(fl[i], env), EnvFileName(fl[i], sExample)} :
                i \in 1..Len(fl) }

\* Config.Environment, CONFIGOR_ENV and os.Args[0], by the name they resolve
\* to: Config.Environment goes before CONFIGOR_ENV, CONFIGOR_ENV before the
\* test binary's name
LoadInputs ==
    { [cfg |-> sProd, env |-> sExample, test |-> FALSE, name |-> sProd],
      [cfg |-> <<>>,  env |-> sExample, test |-> TRUE,  name |-> sExample] }

\* every disk on which at most MaxPresent of the paths exist
Disks(paths) ==
    UNION { [S -> {"dir", "sets", "blank"}] :
                S \in {T \in SUBSET paths : Cardinality(T) <= MaxPresent} }

\* Load(&Config, files...) is about to run
Init ==
    /\ files \in Lists(Candidates, MaxFiles)
    /\ \E inp \in LoadInputs :
          /\ cfgEnvironment = inp.cfg
          /\ argv0IsTest = inp.test
          /\ environ = IF inp.env = <<>> THEN <<>>
                       ELSE [n \in {CONFIGOR_ENV} |-> inp.env]
          /\ fs \in Disks(Relevant(files, inp.name))
    /\ cfgPrefix = <<>>
    /\ addressable = TRUE
    /\ typ = TypeLoad
    /\ config = [k \in 1..Len(TypeLoad) |-> ZeroOf(TypeLoad[k])]
    /\ config0 = config
    /\ entry = config
    /\ plan = <<>>
    /\ idx = 0
    /\ notices = <<>>
    /\ merged = <<>>
    /\ stack = <<>>
    /\ log = <<>>
    /\ err = NoError
    /\ pc = "load"
    /\ pass = 1
    /\ afterFirst = config

Next ==
    \/ Load
    \/ ResolveCandidate
    \/ ResolveReturn
    \/ MergeFile
    \/ BeginBind
    \/ ProcessField
    \/ ReturnFrame

Spec == Init /\ [][Next]_vars

\* Bind(structure, prefix) is about to run on a structure the files have filled
InitBind ==
    /\ \E sc \in Scenarios :
          /\ typ = sc.typ
          /\ cfgPrefix = sc.prefix
          /\ environ \in Environs(sc.names)
          /\ config \in StructValues(sc.typ)
          /\ stack = <<Frame(sc.typ, <<>>,
                             IF sc.prefix = <<>> THEN <<>> ELSE <<sc.prefix>>)>>
    /\ config0 = config
    /\ entry = config
    /\ afterFirst = config
    /\ files = <<>>
    /\ cfgEnvironment = <<>>
    /\ argv0IsTest = FALSE
    /\ addressable = TRUE
    /\ fs = <<>>
    /\ plan = <<>>
    /\ idx = 0
    /\ notices = <<>>
    /\ merged = <<>>
    /\ log = <<>>
    /\ err = NoError
    /\ pc = "bind"
    /\ pass = 1

NextBind ==
    \/ ProcessField
    \/ ReturnFrame
    \/ BindAgain

SpecBind == InitBind /\ [][NextBind]_vars


(***************************************************************************)
(* Properties of the Resolver and of Load.                                 *)
(***************************************************************************)
\* the disk's regular files, stated on the disk alone
RegularOnDisk(p) == p \in DOMAIN fs /\ fs[p] # "dir"

\* getConfigurationFiles has returned
Resolved == pc \in {"merge", "bind", "done"} /\ addressable

\* every file of the plan has been merged
Merged == pc \in {"bind", "done"} /\ addressable /\ Len(merged) = Len(plan)

\* the positions of the plan that candidate i contributed
EntriesOf(i) == {m \in 1..Len(plan) : plan[m].cand = i}

\* the path each kind of entry of candidate i must carry
PathOf(i, step) ==
    CASE step = "base"    -> files[i]
      [] step = "env"     -> EnvFileName(files[i], GetEnvironment)
      [] step = "example" -> EnvFileName(files[i], sExample)

\* the positions of candidate i whose file sets the fields
SettersOf(i) == {m \in EntriesOf(i) : fs[plan[m].path] = "sets"}

\* the file whose value C1 says a field set by several files holds: in the
\* earliest-listed candidate that sets it, the environment variant if that
\* sets it, else the candidate's other file
Winner ==
    LET i == CHOOSE c \in 1..Len(files) :
                /\ SettersOf(c) # {}
                /\ \A d \in 1..(c - 1) : SettersOf(d) = {}
        envSetters == {m \in SettersOf(i) : plan[m].step = "env"}
    IN  IF envSetters # {} THEN plan[CHOOSE m \in envSetters : TRUE].path
        ELSE plan[CHOOSE m \in SettersOf(i) : TRUE].path

\* C1: in the plan, every entry of an earlier-listed candidate comes after
\* every entry of a later-listed one, and a candidate's environment variant
\* comes immediately after its base file; so once Load has merged the plan a
\* field set by several files holds the value of the earliest-listed
\* candidate that sets it, its environment variant's if that file sets it.
C1_PlanOrder ==
    /\ \A m \in 1..Len(plan) : plan[m].path = PathOf(plan[m].cand, plan[m].step)
    /\ \A m, n \in 1..Len(plan) : plan[m].cand < plan[n].cand => n < m
    /\ \A m \in 1..Len(plan) :
          plan[m].step = "base" /\ RegularOnDisk(PathOf(plan[m].cand, "env"))
              /\ (Resolved \/ plan[m].cand > idx)
          => /\ m < Len(plan)
             /\ plan[m + 1] = Entry(PathOf(plan[m].cand, "env"), plan[m].cand, "env")
    /\ \A m \in 1..Len(plan) :
          plan[m].step = "env" /\ RegularOnDisk(files[plan[m].cand])
          => /\ m > 1
             /\ plan[m - 1] = Entry(files[plan[m].cand], plan[m].cand, "base")
    /\ Merged =>
          \A k \in 1..Len(typ) :
             config0[k] = IF \E c \in 1..Len(files) : SettersOf(c) # {}
                          THEN FileValue(Winner) ELSE 0

\* C1's case: two candidates contribute, the earlier-listed one its base file
\* and its environment variant, all three files set the field, Load is done
C1_Witness ==
    /\ pc = "done"
    /\ err = NoError
    /\ Len(files) = 2
    /\ Len(plan) = 3
    /\ plan[2].cand = 1 /\ plan[2].step = "base"
    /\ plan[3].cand = 1 /\ plan[3].step = "env"
    /\ \A m \in 1..3 : fs[plan[m].path] = "sets"
    /\ plan[1].path # plan[3].path
    /\ config0[1] = FileValue(plan[3].path)

\* C8: every path of the plan is a regular file on the disk and is the
\* candidate itself, its environment variant or its example variant; nothing
\* missing and no directory is in the plan.
C8_PlanRegular ==
    \A m \in 1..Len(plan) :
       /\ RegularOnDisk(plan[m].path)
       /\ plan[m].cand \in 1..Len(files)
       /\ \E st \in {"base", "env", "example"} : plan[m].path = PathOf(plan[m].cand, st)

\* C8's case: a candidate is a directory, its environment variant a regular
\* file: the plan holds the variant and not the directory
C8_Witness ==
    /\ Resolved
    /\ \E i \in 1..Len(files) :
          /\ files[i] \in DOMAIN fs
          /\ fs[files[i]] = "dir"
          /\ EntriesOf(i) # {}
          /\ \A m \in EntriesOf(i) : plan[m].step = "env"

\* the steps that contributed candidate i's entries
StepsOf(i) == {plan[m].step : m \in EntriesOf(i)}

\* C9 as stated: the example variant is in the plan for a candidate exactly
\* when neither the candidate nor its environment variant is a regular file
\* and the example variant is; a candidate contributes nothing only if none
\* of its three variants exists; a candidate contributes at most two entries;
\* a Load with an empty plan goes on to Bind.
C9_AsStated ==
    /\ Resolved =>
          \A i \in 1..Len(files) :
             /\ (\E m \in EntriesOf(i) : plan[m].path = PathOf(i, "example"))
                   <=> /\ ~RegularOnDisk(PathOf(i, "base"))
                       /\ ~RegularOnDisk(PathOf(i, "env"))
                       /\ RegularOnDisk(PathOf(i, "example"))
             /\ EntriesOf(i) = {} =>
                   \A st \in {"base", "env", "example"} : ~Exists(PathOf(i, st))
             /\ Cardinality(EntriesOf(i)) <= 2
    /\ pc = "done" /\ addressable /\ plan = <<>> => log # <<>>

\* C9, amended: the example step contributes for a candidate exactly when
\* neither the candidate nor its environment variant is a regular file and
\* the example variant is; a candidate contributes nothing only if none of
\* its three variants is a regular file; at most two entries per candidate;
\* a Load with an empty plan goes on to Bind.
C9_ExampleFallback ==
    /\ Resolved =>
          \A i \in 1..Len(files) :
             /\ "example" \in StepsOf(i)
                   <=> /\ ~RegularOnDisk(PathOf(i, "base"))
                       /\ ~RegularOnDisk(PathOf(i, "env"))
                       /\ RegularOnDisk(PathOf(i, "example"))
             /\ EntriesOf(i) = {} =>
                   \A st \in {"base", "env", "example"} : ~RegularOnDisk(PathOf(i, st))
             /\ Cardinality(EntriesOf(i)) <= 2
    /\ pc = "done" /\ addressable /\ plan = <<>> => log # <<>>

\* C9's case: one candidate falls back to its example file, another has a
\* regular example file that is not taken because the candidate is there
C9_Witness ==
    /\ Resolved
    /\ \E i, j \in 1..Len(files) :
          /\ StepsOf(i) = {"example"}
          /\ StepsOf(j) = {"base"}
          /\ RegularOnDisk(PathOf(j, "example"))

\* the plan holds an example fallback
FellBack == \E m \in 1..Len(plan) : plan[m].step = "example"

\* C7: when a candidate falls back to its example file, Load merges that
\* file, succeeds if nothing else fails, and has emitted a notice by the time
\* it returns.
C7_FallbackNotice ==
    pc = "done" /\ FellBack =>
       /\ notices # <<>>
       /\ err.kind # "format" =>
             \A m \in 1..Len(plan) : plan[m].step = "example" => m \in Range(merged)


(***************************************************************************)
(* Properties of the Binder.  A field is named by its path: the indices    *)
(* from the root, a field's index in its record and, under a list, the     *)
(* element's index.                                                        *)
(***************************************************************************)
\* the descriptor of the field at path p of a record of type t
RECURSIVE FieldAt(_, _)
FieldAt(t, p) ==
    LET f == t[p[1]] IN
    IF Len(p) = 1 THEN f
    ELSE IF f.kind = "slice" THEN FieldAt(f.elem, SubSeq(p, 3, Len(p)))
    ELSE FieldAt(f.elem, Tail(p))

\* the path of the record that holds the field at path p
ParentOf(p) == SubSeq(p, 1, Len(p) - 1)

\* the prefix under which the record at path p is bound, by the anonymous
\* rule: a record field adds its name unless it is embedded and tagged, a
\* list element adds its index after that
RECURSIVE QualifiedPrefix(_, _, _)
QualifiedPrefix(t, p, acc) ==
    IF p = <<>> THEN acc
    ELSE LET f   == t[p[1]]
             seg == IF f.embedded /\ f.anonTag THEN acc ELSE Append(acc, f.name)
         IN  IF f.kind = "slice"
             THEN QualifiedPrefix(f.elem, SubSeq(p, 3, Len(p)),
                                  Append(seg, Sprint(p[2] - 1)))
             ELSE QualifiedPrefix(f.elem, Tail(p), seg)

RootPrefix == IF GetEnvironmentPrefix = <<>> THEN <<>> ELSE <<GetEnvironmentPrefix>>

\* the paths of all fields of a record of type t whose value is v
RECURSIVE FieldPaths(_, _)
FieldPaths(t, v) ==
    UNION { {<<k>>} \cup
            ( CASE t[k].kind = "struct" ->
                      {<<k>> \o r : r \in FieldPaths(t[k].elem, v[k])}
                [] t[k].kind = "slice" ->
                      UNION { {<<k, j>> \o r : r \in FieldPaths(t[k].elem, v[k][j])} :
                                  j \in 1..Len(v[k]) }
                [] OTHER -> {} ) : k \in 1..Len(t) }

\* p comes before q in the order processTags visits the fields
RECURSIVE PathLess(_, _)
PathLess(p, q) ==
    IF p = <<>> THEN q # <<>>
    ELSE IF q = <<>> THEN FALSE
    ELSE IF p[1] = q[1] THEN PathLess(Tail(p), Tail(q))
    ELSE p[1] < q[1]

\* what run n of Bind did at the field at path p, in order
EventsAt(n, p) ==
    LET Here(e) == e.pass = n /\ e.path = p IN SelectSeq(log, Here)

\* what run n of Bind did, in order
EventsOf(n) ==
    LET Here(e) == e.pass = n IN SelectSeq(log, Here)

IsGetenv(e) == e.op = "getenv"

\* the names C2 says are looked up for the field at path p
ClaimedNames(p) ==
    LET f      == FieldAt(typ, p)
        joined == Join(Append(QualifiedPrefix(typ, ParentOf(p), RootPrefix), f.name),
                       Underscore)
    IN  IF f.env # NoTag THEN <<f.env>>
        ELSE <<joined, toScreamingSnakeCase(joined)>>

C3_RequiredBlankFails ==
    /\ pc = "done" /\ err = NoError =>
          \A r \in FieldPaths(typ, config) :
             LET f == FieldAt(typ, r) IN
             f.exported /\ f.required => ~IsBlank(f, GetAt(config, r))
    /\ err.kind = "required" =>
          \E r \in FieldPaths(typ, config) :
             LET f == FieldAt(typ, r) IN
             f.required /\ IsBlank(f, GetAt(config, r)) /\ err.name = f.name

\* every exported leaf of t has a default that parses
RECURSIVE AllDefaults(_)
AllDefaults(t) ==
    \A k \in 1..Len(t) :
       t[k].exported =>
          IF t[k].kind = "uint" THEN t[k].def # NoTag /\ IsDecimal(t[k].def)
          ELSE AllDefaults(t[k].elem)

\* C4 as stated: a structure whose fields all have defaults that parse binds
\* without error whatever the environment holds.
C4_AsStated == pc = "done" /\ AllDefaults(typ) => err = NoError

\* every non-empty value Bind got from the environment parses into the field
\* it was looked up for
LookupsParse ==
    \A e \in Range(log) :
       e.op = "getenv" /\ e.lit # <<>> =>
          FieldAt(typ, e.path).kind = "uint" /\ IsDecimal(e.lit)

\* C4, amended: such a structure binds without error in every environment in
\* which each non-empty value Bind looks up parses into the field's type.
C4_DefaultsNeverFail ==
    pc = "done" /\ AllDefaults(typ) /\ LookupsParse => err = NoError

\* C4's case: Bind has succeeded on such a structure, having assigned one
\* field from the environment and another, required and blank, its default
C4_Witness ==
    /\ pc = "done"
    /\ AllDefaults(typ)
    /\ err = NoError
    /\ \E e \in Range(log) : e.op = "setenv"
    /\ \E e \in Range(log) : e.op = "default" /\ FieldAt(typ, e.path).required

\* no exported field of the record is zero-valued
NoZeroField(t, v) ==
    \A r \in FieldPaths(t, v) :
       FieldAt(t, r).exported => ~IsBlank(FieldAt(t, r), GetAt(v, r))

\* the structure's value when run n of Bind was entered
EntryOf(n) == IF n = 1 THEN config0 ELSE afterFirst

\* C5: on a structure with no zero-valued field a second Bind in the same
\* environment leaves every field as the first left it, and no run assigns
\* a default to a field that is non-zero when the default step is reached.
C5_Idempotent ==
    /\ pass = 2 /\ pc = "done" /\ NoZeroField(typ, config0) => config = afterFirst
    /\ \A d \in {e \in Range(log) : e.op = "default"} :
          LET sets == {e \in Range(EventsAt(d.pass, d.path)) : e.op = "setenv"} IN
          IF sets = {} THEN GetAt(EntryOf(d.pass), d.path) = 0
          ELSE \A e \in sets : DecimalValue(e.lit) = 0

\* C5's case: the second Bind has returned on a fully populated structure
\* that the environment changed, one field through a zero value to its default
C5_Witness ==
    /\ pass = 2
    /\ pc = "done"
    /\ NoZeroField(typ, config0)
    /\ config # config0
    /\ config = afterFirst
    /\ \E e \in Range(log) : e.op = "default" /\ e.pass = 2

\* C6: the prefix a nested record, or a list element, is bound under is its
\* parent's prefix, plus the field's name unless the field is embedded and
\* tagged anonymous, plus the element index for a list element; so
\* Description in the embedded, tagged Details is looked up as DESCRIPTION.
C6_AnonymousPrefix ==
    /\ \A k \in 1..Len(stack) :
          stack[k].prefixes = QualifiedPrefix(typ, stack[k].path, RootPrefix)
    /\ typ = TypeAnonymous =>
          \A e \in Range(log) :
             /\ e.op = "getenv" /\ e.path = <<1, 1>> =>
                   e.name \in {sDescription, sDESCRIPTION}
             /\ e.op = "getenv" /\ e.path = <<3, 1>> =>
                   e.name \in {sMeta \o Underscore \o sLevel, sMETA_LEVEL}
             /\ e.op = "getenv" /\ e.path = <<4, 1>> =>
                   e.name \in {sExtra \o Underscore \o sSize, sEXTRA_SIZE}

\* C6's case: Description was read from DESCRIPTION and Size from EXTRA_SIZE,
\* and META_LEVEL was looked up for Level
C6_Witness ==
    /\ typ = TypeAnonymous
    /\ \E e \in Range(log) : e.op = "setenv" /\ e.name = sDESCRIPTION
    /\ \E e \in Range(log) : e.op = "getenv" /\ e.name = sMETA_LEVEL
    /\ \E e \in Range(log) : e.op = "setenv" /\ e.name = sEXTRA_SIZE

\* Bind has failed at a field
BindFailed == err.kind \in {"required", "literal"}

\* C10: when Bind fails at a field every level returns at once: nothing is
\* left to run, the failure is the last thing done, no field after the
\* failing one in the traversal is looked up, defaulted, checked or changed.
C10_FailFast ==
    BindFailed =>
       /\ stack = <<>>
       /\ pc = "done"
       /\ LET done == EventsOf(pass)
              last == done[Len(done)]
          IN  /\ last.op \in {"required", "badenv", "baddefault"}
              /\ \A k \in 1..Len(done) : ~PathLess(last.path, done[k].path)
              /\ \A r \in FieldPaths(typ, entry) :
                    PathLess(last.path, r) /\ FieldAt(typ, r).kind = "uint"
                    => GetAt(config, r) = GetAt(entry, r)

\* C10's case: Bind failed at a required field while a later field was blank
\* and had a value waiting in the environment
C10_Witness ==
    /\ err.kind = "required"
    /\ typ = TypeAnonymous
    /\ Getenv(sMETA_LEVEL) = lit1
    /\ GetAt(config, <<3, 1>>) = 0

=============================================================================
